---- MODULE Spec2Model ----
(***************************************************************************)
(* Fadecandy device backend (server/src/fcdevice.cpp): the asynchronous    *)
(* USB transfer lifecycle of one FCDevice, its frame backpressure policy,  *)
(* and the OPC pixel mapper.                                               *)
(*                                                                         *)
(* Two threads of control are modelled.  The control thread runs the       *)
(* FCDevice methods (matchConfiguration, writeMessage, flush, the          *)
(* destructor).  libusb runs the completion callback completeTransfer      *)
(* from its own context, so a callback may fall between any two steps of   *)
(* the reap loop of flush; flush is therefore modelled one loop iteration  *)
(* at a time.  Every other method touches no datum the callback writes and *)
(* is one atomic action.                                                   *)
(***************************************************************************)
EXTENDS Integers, Sequences, FiniteSets, TLC

---------------------------------------------------------------------------
(* Bounds of the model *)

\* Transfers of type OTHER that may be outstanding at once.
MaxOther == 1

\* Pixel capacity of the framebuffer (512 in the firmware's packet layout),
\* scaled down; the packet layout below is derived from it.
NUM_PIXELS == 3

\* Pixels carried by one framebuffer packet (21 on the wire), scaled down.
PIXELS_PER_PACKET == 2

\* Payload bytes of the firmware-configuration packet (63 on the wire),
\* scaled down.
CONFIG_DATA_SIZE == 2

\* Entries of the color look-up table per channel (257 in the firmware),
\* scaled down.
LUT_ENTRIES == 3

\* 16-bit LUT entries carried by one packet of mColorLUT (31 on the wire: a
\* padding byte and 31 entries fill the 63 payload bytes), scaled down
\* separately from the pixel layout so that the payload keeps the shape
\* 1 + 2 * entries.
LUT_PACKET_ENTRIES == 2

\* unsigned arithmetic wraps at this modulus (2^32 in the build); scaled down
\* to fit the model checker's integers, and far above every size involved.
UINT_MODULUS == 65536

---------------------------------------------------------------------------
(* Program constants *)

\* fcdevice.h: at most this many FRAME transfers are outstanding.
MAX_FRAMES_PENDING == 2

\* Packet control-byte fields (fcdevice.h).
TYPE_FRAMEBUFFER == 0
TYPE_LUT == 64
TYPE_CONFIG == 128
FINAL == 32

\* Firmware configuration flags (fcdevice.h).
CFLAG_NO_ACTIVITY_LED == 4
CFLAG_LED_CONTROL == 8

\* OPC command bytes (opc.h).
SetPixelColors == 0
SystemExclusive == 255

\* System-exclusive extension IDs (opc.h): system ID 0x0001 in the high
\* half, the command in the low half.
FCSetGlobalColorCorrection == 65537
FCSetFirmwareConfiguration == 65538

UINT_MAX == UINT_MODULUS - 1

\* Number of packets of mFramebuffer, and bytes of one packet's payload.
FRAMEBUFFER_PACKETS == (NUM_PIXELS + PIXELS_PER_PACKET - 1) \div PIXELS_PER_PACKET
PACKET_DATA_SIZE == 3 * PIXELS_PER_PACKET

\* Number of packets of mColorLUT, and bytes of one LUT packet's payload.
LUT_PACKETS == (3 * LUT_ENTRIES + LUT_PACKET_ENTRIES - 1) \div LUT_PACKET_ENTRIES
LUT_DATA_SIZE == 1 + 2 * LUT_PACKET_ENTRIES

\* const unsigned firstByteOffset = 1;  // Skip padding byte
firstByteOffset == 1

\* Addresses at which a Transfer object can live.  A frame submission needs
\* a free address only while mNumFramesPending < MAX_FRAMES_PENDING, and
\* the OTHER transfers are capped by MaxOther, so `new` never fails.
Slots == 1 .. (MAX_FRAMES_PENDING + MaxOther)

\* std::set<Transfer*>::end()
END == 0

Min(a, b) == IF a <= b THEN a ELSE b
Max(a, b) == IF a >= b THEN a ELSE b

---------------------------------------------------------------------------
(* JSON values (rapidjson::Value), as far as the device reads them *)

JUint(n) == [kind |-> "uint", val |-> n]
JInt(n) == [kind |-> "int", val |-> n]
JString == [kind |-> "string", val |-> 0]
JArray(s) == [kind |-> "array", elems |-> s]

JNull == [kind |-> "null"]
\* An object, as far as writeColorCorrection reads it: its four members
\* (a member that is absent reads as null).
JObject(g, w, s, c) ==
    [kind |-> "object", gamma |-> g, whitepoint |-> w, linearSlope |-> s,
     linearCutoff |-> c]

IsArray(v) == v.kind = "array"
IsObject(v) == v.kind = "object"
IsNumber(v) == v.kind \in {"uint", "int"}
IsUint(v) == v.kind = "uint"
Size(v) == Len(v.elems)

\* A mapping instruction [ OPC Channel, First OPC Pixel, First output pixel, pixel count ]
Rule(c, o, f, n) == JArray(<<JUint(c), JUint(o), JUint(f), JUint(n)>>)

\* mConfigMap == 0
NullMap == [kind |-> "nullptr"]

---------------------------------------------------------------------------
VARIABLES
    alive,                  \* the FCDevice object exists (destructor not yet run)
    mConfigMap,             \* const Value *mConfigMap
    mNumFramesPending,      \* int mNumFramesPending
    mFrameWaitingForSubmit, \* bool mFrameWaitingForSubmit
    mPending,               \* std::set<Transfer*> mPending
    pendingOrder,           \* the elements of mPending in the set's order, that of their addresses
    mFramebuffer,           \* Packet mFramebuffer[FRAMEBUFFER_PACKETS]
    mFirmwareConfig,        \* Packet mFirmwareConfig
    mColorLUT,              \* Packet mColorLUT[LUT_PACKETS]
    alloc,                  \* addresses holding a live Transfer object
    xtype,                  \* Transfer::type, per address
    finished,               \* Transfer::finished, per address
    usbActive,              \* transfers libusb holds: submitted, callback not yet run
    cancelRequested,        \* transfers on which libusb_cancel_transfer was called
    pc,                     \* control thread: "idle", or "flush" inside the reap loop
    current,                \* flush's iterator `current` (END when past the last)
    lastCall,               \* what the most recent step did (observation)
    burst,                  \* client frame writes not failed since a frame was last reaped (observation)
    cleanPass,              \* inside flush: no Transfer of mPending has had its flag set since the pass began (observation)
    dropped,                \* while mFrameWaitingForSubmit: the framebuffer as it was when the flag was set (observation)
    mapIn,                  \* inputs of a direct call of the pixel mapper (observation)
    mapOut,                 \* the reads and writes that call performed (observation)
    passStart,              \* inside flush: the Transfers of mPending whose flag was set when the pass began (observation)
    client,                 \* NetServer::Client of one connection: state and receive buffer
    wire                    \* that connection's byte stream, what of it is still to arrive, and the messages handed to the callback

xferVars == <<mPending, pendingOrder, alloc, xtype, finished, usbActive>>
devVars == <<alive, mConfigMap, mNumFramesPending, mFrameWaitingForSubmit,
             mFramebuffer, mFirmwareConfig, mColorLUT, cancelRequested, pc, current>>
vars == <<alive, mConfigMap, mNumFramesPending, mFrameWaitingForSubmit, mPending,
          pendingOrder,
          mFramebuffer, mFirmwareConfig, mColorLUT, alloc, xtype, finished, usbActive,
          cancelRequested, pc, current, lastCall, burst, cleanPass, dropped,
          mapIn, mapOut, passStart, client, wire>>
netVars == <<client, wire>>

---------------------------------------------------------------------------
(* Packets and the framebuffer *)

ZeroData(n) == [k \in 0 .. (n - 1) |-> 0]

\* FCDevice::FCDevice: framebuffer packet i carries TYPE_FRAMEBUFFER | i,
\* the last one also FINAL; payloads are zeroed.
InitFramebuffer ==
    [i \in 0 .. (FRAMEBUFFER_PACKETS - 1) |->
        [control |-> TYPE_FRAMEBUFFER + i
                     + (IF i = FRAMEBUFFER_PACKETS - 1 THEN FINAL ELSE 0),
         data |-> ZeroData(PACKET_DATA_SIZE)]]

\* FCDevice::FCDevice: the configuration packet is zeroed, control = TYPE_CONFIG.
InitFirmwareConfig == [control |-> TYPE_CONFIG, data |-> ZeroData(CONFIG_DATA_SIZE)]

\* FCDevice::FCDevice: LUT packet i carries TYPE_LUT | i, the last one also
\* FINAL; payloads are zeroed.
InitColorLUT ==
    [i \in 0 .. (LUT_PACKETS - 1) |->
        [control |-> TYPE_LUT + i + (IF i = LUT_PACKETS - 1 THEN FINAL ELSE 0),
         data |-> ZeroData(LUT_DATA_SIZE)]]

\* Pixel slots the array mFramebuffer holds (the last packet may be partly unused).
FramebufferSlots == FRAMEBUFFER_PACKETS * PIXELS_PER_PACKET

\* uint8_t *fbPixel(unsigned num): packet num / PIXELS_PER_PACKET,
\* payload offset 3 * (num % PIXELS_PER_PACKET).
fbPacket(num) == num \div PIXELS_PER_PACKET
fbOffset(num) == 3 * (num % PIXELS_PER_PACKET)

\* The RGB triple stored at pixel num.
Pixel(fb, num) ==
    <<fb[fbPacket(num)].data[fbOffset(num)],
      fb[fbPacket(num)].data[fbOffset(num) + 1],
      fb[fbPacket(num)].data[fbOffset(num) + 2]>>

\* outPtr = fbPixel(num); outPtr[0] = r; outPtr[1] = g; outPtr[2] = b.
\* A store past the array does not land in mFramebuffer.
StorePixel(fb, num, r, g, b) ==
    IF num < FramebufferSlots
    THEN [fb EXCEPT ![fbPacket(num)].data =
             [k \in 0 .. (PACKET_DATA_SIZE - 1) |->
                 IF k = fbOffset(num) THEN r
                 ELSE IF k = fbOffset(num) + 1 THEN g
                 ELSE IF k = fbOffset(num) + 2 THEN b
                 ELSE @[k]]]
    ELSE fb

---------------------------------------------------------------------------
(* OPC messages and the pixel mapper *)

Message(ch, cmd, bytes) == [channel |-> ch, command |-> cmd, data |-> bytes]

\* OPC::Message::length(): the declared payload length.
Length(msg) == Len(msg.data)

\* msg.data[off]; an offset past the payload is outside the message.
ReadByte(msg, off) == IF off < Length(msg) THEN msg.data[off + 1] ELSE 0

\* unsigned subtraction
Sub32(a, b) == (a - b + UINT_MODULUS) % UINT_MODULUS

\* unsigned msgPixelCount = msg.length() / 3
MsgPixelCount(msg) == Length(msg) \div 3

\* inst.IsArray() && inst.Size() == 4 && all four elements IsUint()
WellFormed(inst) ==
    /\ IsArray(inst)
    /\ Size(inst) = 4
    /\ \A k \in 1 .. 4 : IsUint(inst.elems[k])

\* Mutant: the rule's channel is not compared with the message's.
ChannelIgnored(channel, msg) == TRUE

\* if (channel != msg.channel) return;
ChannelMatches(channel, msg) == channel = msg.channel

\* firstOPC = std::min<unsigned>(firstOPC, msgPixelCount)
ClampFirstOPC(firstOPC, msg) == Min(firstOPC, MsgPixelCount(msg))

\* Mutant: firstOut is used unclamped.
FirstOutUnclamped(firstOut) == firstOut

\* firstOut = std::min<unsigned>(firstOut, unsigned(NUM_PIXELS))
ClampFirstOut(firstOut) == Min(firstOut, NUM_PIXELS)

\* count = std::min<unsigned>(count, msgPixelCount - firstOPC);
\* count = std::min<unsigned>(count, NUM_PIXELS - firstOut);
ClampCount(count, firstOPC, firstOut, msg) ==
    Min(Min(count, Sub32(MsgPixelCount(msg), firstOPC)), Sub32(NUM_PIXELS, firstOut))

\* while (count--) { copy one RGB triple; inPtr += 3; outIndex++ }
\* Returns the framebuffer with the payload offsets read and the pixel
\* indices written.
RECURSIVE CopyPixels(_, _, _, _, _)
CopyPixels(fb, msg, inOff, outIndex, count) ==
    IF count = 0
    THEN [fb |-> fb, reads |-> {}, writes |-> {}]
    ELSE LET stored == StorePixel(fb, outIndex, ReadByte(msg, inOff),
                                  ReadByte(msg, inOff + 1), ReadByte(msg, inOff + 2))
             rest == CopyPixels(stored, msg, inOff + 3, outIndex + 1, count - 1)
         IN  [fb |-> rest.fb,
              reads |-> {inOff, inOff + 1, inOff + 2} \cup rest.reads,
              writes |-> {outIndex} \cup rest.writes]

\* FCDevice::opcMapPixelColors
opcMapPixelColors(fb, msg, inst) ==
    IF ~WellFormed(inst)
    THEN [fb |-> fb, reads |-> {}, writes |-> {}]
    ELSE LET channel == inst.elems[1].val
             firstOPC == ClampFirstOPC(inst.elems[2].val, msg)
             firstOut == ClampFirstOut(inst.elems[3].val)
             count == ClampCount(inst.elems[4].val, firstOPC, firstOut, msg)
         IN  IF ~ChannelMatches(channel, msg)
             THEN [fb |-> fb, reads |-> {}, writes |-> {}]
             ELSE CopyPixels(fb, msg, (firstOPC * 3) % UINT_MODULUS, firstOut, count)

\* for (unsigned i = 0, e = map.Size(); i != e; i++) opcMapPixelColors(msg, map[i]);
RECURSIVE MapFrom(_, _, _, _)
MapFrom(fb, msg, map, i) ==
    IF i = Size(map)
    THEN fb
    ELSE MapFrom(opcMapPixelColors(fb, msg, map.elems[i + 1]).fb, msg, map, i + 1)

\* FCDevice::opcSetPixelColors: the framebuffer after the message.
opcSetPixelColors(fb, map, msg) ==
    IF map = NullMap THEN fb ELSE MapFrom(fb, msg, map, 0)

---------------------------------------------------------------------------
(* System-exclusive messages: color correction and firmware configuration *)

\* The big-endian extension ID in the first four payload bytes.
SysExId(msg) ==
    ((msg.data[1] * 256 + msg.data[2]) * 256 + msg.data[3]) * 256 + msg.data[4]

\* msg.data + 4, msg.length() - 4
SysExBody(msg) == SubSeq(msg.data, 5, Len(msg.data))

\* JSON texts sent as color-correction payloads, as ASCII.
\* {}
TextEmptyObject == <<123, 125>>
\* []
TextArray == <<91, 93>>
\* {"whitepoint":[256,0,-1]}
TextWhitepoint ==
    <<123, 34, 119, 104, 105, 116, 101, 112, 111, 105, 110, 116, 34, 58,
      91, 50, 53, 54, 44, 48, 44, 45, 49, 93, 125>>
\* {"whitepoint":[100,1,1],"linearSlope":3,"linearCutoff":2}
TextSlope ==
    <<123, 34, 119, 104, 105, 116, 101, 112, 111, 105, 110, 116, 34, 58,
      91, 49, 48, 48, 44, 49, 44, 49, 93, 44, 34, 108, 105, 110, 101, 97,
      114, 83, 108, 111, 112, 101, 34, 58, 51, 44, 34, 108, 105, 110, 101,
      97, 114, 67, 117, 116, 111, 102, 102, 34, 58, 50, 125>>
\* {"gamma":"x","whitepoint":[1,2]}
TextBadGamma ==
    <<123, 34, 103, 97, 109, 109, 97, 34, 58, 34, 120, 34, 44, 34, 119,
      104, 105, 116, 101, 112, 111, 105, 110, 116, 34, 58, 91, 49, 44, 50,
      93, 125>>
\* {"gamma":
TextTruncated == <<123, 34, 103, 97, 109, 109, 97, 34, 58>>
\* {whitepoint}
TextNoQuotes == <<123, 119, 104, 105, 116, 101, 112, 111, 105, 110, 116, 125>>
\* (no text)
TextEmpty == <<>>

\* rapidjson::Document::ParseInsitu on the texts above: whether the parse
\* fails, and the document on success.
ParseInsitu(text) ==
    CASE text = TextEmptyObject ->
            [error |-> FALSE, doc |-> JObject(JNull, JNull, JNull, JNull)]
      [] text = TextArray ->
            [error |-> FALSE, doc |-> JArray(<<>>)]
      [] text = TextWhitepoint ->
            [error |-> FALSE,
             doc |-> JObject(JNull, JArray(<<JUint(256), JUint(0), JInt(-1)>>),
                             JNull, JNull)]
      [] text = TextSlope ->
            [error |-> FALSE,
             doc |-> JObject(JNull, JArray(<<JUint(100), JUint(1), JUint(1)>>),
                             JUint(3), JUint(2))]
      [] text = TextBadGamma ->
            [error |-> FALSE,
             doc |-> JObject(JString, JArray(<<JUint(1), JUint(2)>>), JNull, JNull)]
      [] OTHER -> [error |-> TRUE, doc |-> JNull]

\* writeColorCorrection: the parameters read from `color`, a member of the
\* wrong type leaving the default.  Every drawn document leaves gamma at
\* 1.0 and the numbers are integers, for which the double arithmetic of
\* the curve is exact to well below the rounding step.
Gamma(color) ==
    IF IsObject(color) /\ IsNumber(color.gamma) THEN color.gamma.val ELSE 1
LinearSlope(color) ==
    IF IsObject(color) /\ IsNumber(color.linearSlope) THEN color.linearSlope.val ELSE 1
LinearCutoff(color) ==
    IF IsObject(color) /\ IsNumber(color.linearCutoff) THEN color.linearCutoff.val ELSE 0
Whitepoint(color) ==
    IF /\ IsObject(color)
       /\ IsArray(color.whitepoint)
       /\ Size(color.whitepoint) = 3
       /\ \A k \in 1 .. 3 : IsNumber(color.whitepoint.elems[k])
    THEN [k \in 1 .. 3 |-> color.whitepoint.elems[k].val]
    ELSE <<1, 1, 1>>

\* int64_t(x + 0.5) for an integer x: the conversion truncates toward zero.
TruncHalf(x) == IF x >= 0 THEN x ELSE x + 1

\* int64_t longValue = (output * 0xFFFF) + 0.5, for LUT entry `entry` of
\* `channel`.  With in65535 = 65535 * input = (entry << 8) * whitepoint:
\* the linear branch gives output = input * linearSlope, the other one
\* output = linearCutoff + pow(nonlinearInput / scale, 1.0) * scale.
LongValue(color, channel, entry) ==
    LET in65535 == (entry * 256) * Whitepoint(color)[channel + 1]
        slope == LinearSlope(color)
        cutoff == LinearCutoff(color)
    IN  IF in65535 * slope <= 65535 * cutoff
        THEN TruncHalf(in65535 * slope)
        ELSE TruncHalf(65535 * cutoff + (in65535 - 65535 * slope * cutoff))

\* uint8_t(x)
Uint8(x) == x % 256

\* Mutant: the value is stored without the clamp.
IntValueUnclamped(longValue) == longValue

\* int intValue = std::max<int64_t>(0, std::min<int64_t>(0xFFFF, longValue))
IntValue(longValue) == Max(0, Min(65535, longValue))

\* The byte address, from the start of mColorLUT, of data[off] of packet
\* `packet`: a packet is its control byte followed by its payload.
LutAddress(packet, off) == packet * (1 + LUT_DATA_SIZE) + 1 + off

\* packet->data[off] = v.  An offset past the payload lands in the bytes
\* that follow it; a store past the array does not land in mColorLUT.
StoreLUT(lut, packet, off, v) ==
    LET q == LutAddress(packet, off) \div (1 + LUT_DATA_SIZE)
        r == LutAddress(packet, off) % (1 + LUT_DATA_SIZE)
    IN  IF q >= LUT_PACKETS THEN lut
        ELSE IF r = 0 THEN [lut EXCEPT ![q].control = v]
        ELSE [lut EXCEPT ![q].data[r - 1] = v]

\* Mutant: the end-of-packet test is off by one.
PacketFullOffByOne(byteOffset) == byteOffset > LUT_DATA_SIZE

\* if (byteOffset >= sizeof packet->data)
PacketFull(byteOffset) == byteOffset >= LUT_DATA_SIZE

\* The two nested loops of writeColorCorrection from their n-th iteration
\* (channel n / LUT_ENTRIES, entry n % LUT_ENTRIES).  Returns the LUT and
\* the byte addresses written.
RECURSIVE WriteEntries(_, _, _, _, _)
WriteEntries(lut, color, n, packet, byteOffset) ==
    IF n = 3 * LUT_ENTRIES
    THEN [lut |-> lut, writes |-> {}]
    ELSE LET intValue == IntValue(LongValue(color, n \div LUT_ENTRIES, n % LUT_ENTRIES))
             low == StoreLUT(lut, packet, byteOffset, Uint8(intValue))
             high == StoreLUT(low, packet, byteOffset + 1, Uint8(intValue \div 256))
             rest == IF PacketFull(byteOffset + 2)
                     THEN WriteEntries(high, color, n + 1, packet + 1, firstByteOffset)
                     ELSE WriteEntries(high, color, n + 1, packet, byteOffset + 2)
         IN  [lut |-> rest.lut,
              writes |-> {LutAddress(packet, byteOffset),
                          LutAddress(packet, byteOffset + 1)} \cup rest.writes]

\* FCDevice::writeColorCorrection, up to the submission of the LUT.
writeColorCorrection(lut, color) == WriteEntries(lut, color, 0, 0, firstByteOffset)

\* Mutant: the copy is not truncated to the payload size.
ConfigCountUntruncated(msg) == Sub32(Length(msg), 4)

\* std::min<size_t>(sizeof mFirmwareConfig.data, msg.length() - 4)
ConfigCount(msg) == Min(CONFIG_DATA_SIZE, Sub32(Length(msg), 4))

\* memcpy(mFirmwareConfig.data, msg.data + 4, count).  Returns the packet
\* and the payload offsets written; a byte past the payload does not land
\* in the packet.
opcSetFirmwareConfiguration(packet, msg) ==
    [packet |-> [packet EXCEPT !.data =
                    [k \in 0 .. (CONFIG_DATA_SIZE - 1) |->
                        IF k < ConfigCount(msg) THEN ReadByte(msg, 4 + k) ELSE @[k]]],
     writes |-> 0 .. (ConfigCount(msg) - 1)]

---------------------------------------------------------------------------
(* Inputs of the device session *)

\* The end-to-end mapping table [[1, 0, 0, 2]].
Table1 == JArray(<<Rule(1, 0, 0, 2)>>)

\* Two RGB triples on channel 1.
MsgA == Message(1, SetPixelColors, <<10, 20, 30, 40, 50, 60>>)
\* Two RGB triples and a trailing partial one on channel 1.
MsgB == Message(1, SetPixelColors, <<70, 80, 90, 100, 110, 120, 130>>)
\* A command that is neither set-pixel-colors nor system-exclusive.
MsgUnsupported == Message(1, 1, <<10, 20, 30>>)

\* A system-exclusive message: the extension ID, big-endian, then the body.
SysEx(id, body) ==
    Message(0, SystemExclusive,
            <<id \div 16777216, (id \div 65536) % 256, (id \div 256) % 256, id % 256>>
            \o body)

\* Color correction with a text that parses, and with one that does not.
MsgColor == SysEx(FCSetGlobalColorCorrection, TextWhitepoint)
MsgColorBad == SysEx(FCSetGlobalColorCorrection, TextTruncated)
\* Firmware configuration with more bytes than the packet's payload holds.
MsgConfig ==
    SysEx(FCSetFirmwareConfiguration, [k \in 1 .. (CONFIG_DATA_SIZE + 1) |-> 20 + k])
\* A system-exclusive message too short to hold an extension ID.
MsgSysExShort == Message(0, SystemExclusive, <<0, 1, 0>>)
\* A system-exclusive message with an extension ID the device does not know.
MsgSysExUnknown == SysEx(FCSetFirmwareConfiguration + 1, <<1, 2, 3>>)

\* Messages delivered to writeMessage in a session of frame writes.
SessionMessages == {MsgA, MsgB, MsgUnsupported}

\* Messages delivered to writeMessage in a session that mixes frame writes
\* with system-exclusive and rejected messages.
DispatchMessages ==
    {MsgA, MsgUnsupported, MsgColor, MsgColorBad, MsgConfig, MsgSysExShort,
     MsgSysExUnknown}

\* Configuration objects handed to matchConfiguration: whether type and
\* serial match this device, the "map" member, and the "led" member.
Config(m, map, led) == [matches |-> m, map |-> map, led |-> led]
SessionConfigs ==
    {Config(FALSE, Table1, "null"), Config(TRUE, Table1, "null"),
     Config(TRUE, NullMap, "true")}
DispatchConfigs == {Config(TRUE, Table1, "null")}

---------------------------------------------------------------------------
(* Observations *)

\* lastCall: the operation of the latest step, whether it invoked
\* writeFramebuffer, the outcome of its submitTransfer call ("none" when it
\* made none), the address of the Transfer a successful call queued, the
\* address of the Transfer the step reaped (END when none), the bytes a
\* successful call handed to libusb, for a frame, the framebuffer as
\* it was when the frame now sent was deferred (<<>> when none was), and,
\* for a message that is not set-pixel-colors, the message (<<>> otherwise).
Call(op, fb, submit, slot) ==
    [op |-> op, fb |-> fb, submit |-> submit, slot |-> slot, reaped |-> END,
     sent |-> <<>>, deferred |-> <<>>, msg |-> <<>>]
Reaped(t) == [Call("flush", FALSE, "none", END) EXCEPT !.reaped = t]
Sent(op, fb, slot, buffer, deferred) ==
    [Call(op, fb, "ok", slot) EXCEPT !.sent = buffer, !.deferred = deferred]

\* The same, for the handling of system-exclusive or unsupported message
\* `msg`, whose payload is recorded.
Handled(call, msg) == [call EXCEPT !.msg = msg]

NoMapIn == [msg |-> Message(0, 0, <<>>), inst |-> JString]
NoMapOut == [op |-> "none", before |-> InitFramebuffer, reads |-> {}, writes |-> {}]

---------------------------------------------------------------------------
(* NetServer: one client connection *)

\* enum ClientState
CLIENT_STATE_PROTOCOL_DETECT == "protocol-detect"
CLIENT_STATE_OPEN_PIXEL_CONTROL == "opc"
CLIENT_STATE_HTTP == "http"

\* struct Client: state, and buffer[0 .. bufferLength - 1].
Client(state, buffer) == [state |-> state, buffer |-> buffer]

\* The Client of a connection just accepted.
NoClient == Client(CLIENT_STATE_PROTOCOL_DETECT, <<>>)

\* A connection's bytes: all of them, those still to arrive, and the
\* messages handed to mMessageCallback so far.
Wire(stream) == [stream |-> stream, rest |-> stream, dispatched |-> <<>>]
NoWire == Wire(<<>>)

\* The fixed OPC header: channel, command, length high, length low.
OPC_HEADER_BYTES == 4

\* HTTP request-line tokens, as ASCII: "GET ", "POST", "HEAD".
HttpTokens == {<<71, 69, 84, 32>>, <<80, 79, 83, 84>>, <<72, 69, 65, 68>>}

\* The buffer begins with an HTTP request-line token.
BeginsWithToken(buffer) ==
    \E tok \in HttpTokens :
        /\ Len(buffer) >= Len(tok)
        /\ SubSeq(buffer, 1, Len(tok)) = tok

\* Mutant: the stream is classified on its first delivery, whatever its size.
DetectOnFirstDelivery(buffer) == Len(buffer) >= 1

\* Enough bytes are buffered to classify the stream.
DetectReady(buffer) == Len(buffer) >= OPC_HEADER_BYTES

\* The state a connection in protocol-detect moves to with `buffer` buffered.
Detect(buffer) ==
    IF ~DetectReady(buffer) THEN CLIENT_STATE_PROTOCOL_DETECT
    ELSE IF BeginsWithToken(buffer) THEN CLIENT_STATE_HTTP
    ELSE CLIENT_STATE_OPEN_PIXEL_CONTROL

\* The big-endian length field of the header at the start of the buffer.
DeclaredLength(buffer) == buffer[3] * 256 + buffer[4]

\* The buffer holds a whole message: its header and declared payload.
MessageComplete(buffer) ==
    /\ Len(buffer) >= OPC_HEADER_BYTES
    /\ Len(buffer) >= OPC_HEADER_BYTES + DeclaredLength(buffer)

\* NetServer::opcRead on the buffered bytes: every whole message at the
\* head of the buffer is handed to the callback and removed.  Returns what
\* stays buffered and the messages handed over, after those of `out`.
RECURSIVE opcRead(_, _)
opcRead(buffer, out) ==
    IF MessageComplete(buffer)
    THEN LET end == OPC_HEADER_BYTES + DeclaredLength(buffer)
         IN  opcRead(SubSeq(buffer, end + 1, Len(buffer)),
                     Append(out, Message(buffer[1], buffer[2],
                                         SubSeq(buffer, OPC_HEADER_BYTES + 1, end))))
    ELSE [buffer |-> buffer, out |-> out]

---------------------------------------------------------------------------
(* Initial state: FCDevice::FCDevice *)

Init ==
    /\ alive = TRUE
    /\ mConfigMap = NullMap
    /\ mNumFramesPending = 0
    /\ mFrameWaitingForSubmit = FALSE
    /\ mPending = {}
    /\ pendingOrder = <<>>
    /\ mFramebuffer = InitFramebuffer
    /\ mFirmwareConfig = InitFirmwareConfig
    /\ mColorLUT = InitColorLUT
    /\ alloc = {}
    /\ xtype = [t \in Slots |-> "OTHER"]
    /\ finished = [t \in Slots |-> FALSE]
    /\ usbActive = {}
    /\ cancelRequested = {}
    /\ pc = "idle"
    /\ current = END
    /\ lastCall = Call("construct", FALSE, "none", END)
    /\ burst = 0
    /\ dropped = <<>>
    /\ cleanPass = FALSE
    /\ mapIn = NoMapIn
    /\ mapOut = NoMapOut
    /\ passStart = {}
    /\ client = NoClient
    /\ wire = NoWire

---------------------------------------------------------------------------
(* Transfers *)

\* The Transfer objects `new Transfer` may return: any that is not live.
\* Where its address lies among those of the live ones is the allocator's
\* choice too, made when the Transfer enters mPending.
FreeSlots == Slots \ alloc

\* Transfers of type OTHER not yet reaped.
OtherOutstanding == Cardinality({t \in mPending : xtype[t] = "OTHER"})

\* s with t put after its first p elements.
InsertAt(s, p, t) == SubSeq(s, 1, p) \o <<t>> \o SubSeq(s, p + 1, Len(s))

\* FCDevice::submitTransfer(fct), fct the Transfer just built, t.
\* ok is libusb_submit_transfer's verdict.  On failure the
\* Transfer is deleted at once and nothing of the session changes; on
\* success libusb owns the operation until its callback has run.
submitTransfer(t, type, ok) ==
    IF ok
    THEN /\ mPending' = mPending \cup {t}
         /\ \E p \in 0 .. Len(pendingOrder) : pendingOrder' = InsertAt(pendingOrder, p, t)
         /\ alloc' = alloc \cup {t}
         /\ xtype' = [xtype EXCEPT ![t] = type]
         /\ finished' = [finished EXCEPT ![t] = FALSE]
         /\ usbActive' = usbActive \cup {t}
    ELSE UNCHANGED xferVars

\* Mutant: the cap test off by one.
AtFrameCapOffByOne == mNumFramesPending > MAX_FRAMES_PENDING

\* if (mNumFramesPending >= MAX_FRAMES_PENDING)
AtFrameCap == mNumFramesPending >= MAX_FRAMES_PENDING

\* Mutant: the flag is left as it was after a successful submission.
WaitingNotCleared == mFrameWaitingForSubmit

\* writeFramebuffer after submitTransfer returned true: mFrameWaitingForSubmit = false
WaitingAfterSubmit == FALSE

\* Mutant: the flag is cleared whether or not the submission succeeded.
WaitingClearedOnFailure == FALSE

\* writeFramebuffer after submitTransfer returned false: the flag is not touched
WaitingAfterFailedSubmit == mFrameWaitingForSubmit

\* Mutant: the counter is incremented whether or not the submission succeeded.
FramesAlwaysIncremented(ok) == mNumFramesPending + 1

\* writeFramebuffer: mNumFramesPending++ only when submitTransfer returned true
FramesAfterWrite(ok) == IF ok THEN mNumFramesPending + 1 ELSE mNumFramesPending

\* FCDevice::writeFramebuffer, called from `op` with the framebuffer
\* holding `buffer`.
writeFramebuffer(op, buffer, ok) ==
    IF AtFrameCap
    THEN /\ mFrameWaitingForSubmit' = TRUE
         /\ dropped' = (IF mFrameWaitingForSubmit THEN dropped ELSE buffer)
         /\ UNCHANGED <<mNumFramesPending, xferVars>>
         /\ lastCall' = Call(op, TRUE, "none", END)
    ELSE \E t \in FreeSlots :
         /\ dropped' = (IF ok THEN <<>> ELSE dropped)
         /\ submitTransfer(t, "FRAME", ok)
         /\ mFrameWaitingForSubmit' =
               (IF ok THEN WaitingAfterSubmit ELSE WaitingAfterFailedSubmit)
         /\ mNumFramesPending' = FramesAfterWrite(ok)
         /\ lastCall' = (IF ok THEN Sent(op, TRUE, t, buffer, dropped)
                         ELSE Call(op, TRUE, "fail", END))

\* FCDevice::configureDevice: data[0] of the configuration packet from "led".
LedFlags(led) ==
    (IF led = "null" THEN 0 ELSE CFLAG_NO_ACTIVITY_LED)
    + (IF led = "true" THEN CFLAG_LED_CONTROL ELSE 0)

\* Mutant: at the frame cap the configuration packet is not submitted.
writeFirmwareConfigurationCapped(t, ok) ==
    IF AtFrameCap THEN UNCHANGED xferVars ELSE submitTransfer(t, "OTHER", ok)

\* FCDevice::writeFirmwareConfiguration: a Transfer of the default type
\* for mFirmwareConfig, built at address t, whatever the frame counter.
writeFirmwareConfiguration(t, ok) == submitTransfer(t, "OTHER", ok)

\* FCDevice::matchConfiguration, with configureDevice and
\* writeFirmwareConfiguration.
MatchConfiguration(config, ok) ==
    /\ alive
    /\ pc = "idle"
    /\ IF config.matches
       THEN \E t \in FreeSlots :
            /\ OtherOutstanding < MaxOther
            /\ mConfigMap' = config.map
            /\ mFirmwareConfig' = [mFirmwareConfig EXCEPT !.data[0] = LedFlags(config.led)]
            /\ writeFirmwareConfiguration(t, ok)
            /\ lastCall' = (IF ok THEN Sent("matchConfiguration", FALSE, t,
                                            mFirmwareConfig', <<>>)
                            ELSE Call("matchConfiguration", FALSE, "fail", END))
       ELSE /\ UNCHANGED <<mConfigMap, mFirmwareConfig, xferVars>>
            /\ lastCall' = Call("matchConfiguration", FALSE, "none", END)
    /\ UNCHANGED <<alive, mNumFramesPending, mFrameWaitingForSubmit, mFramebuffer,
                   mColorLUT, cancelRequested, pc, current, burst, cleanPass, dropped,
                   mapIn, passStart, netVars, mapOut>>

\* Mutant: the parse error is not looked at.
ParseErrorIgnored(parsed) == FALSE

\* if (doc.HasParseError())
HasParseError(parsed) == parsed.error

\* FCDevice::opcSetGlobalColorCorrection, with writeColorCorrection: a text
\* that does not parse ends the call; otherwise the LUT is recomputed and
\* submitted.
opcSetGlobalColorCorrection(msg, ok) ==
    LET parsed == ParseInsitu(SysExBody(msg))
    IN  IF HasParseError(parsed)
        THEN /\ UNCHANGED <<mColorLUT, mFirmwareConfig, xferVars>>
             /\ lastCall' = Handled(Call("opcSetGlobalColorCorrection", FALSE,
                                         "none", END), msg)
        ELSE \E t \in FreeSlots :
             /\ OtherOutstanding < MaxOther
             /\ mColorLUT' = writeColorCorrection(mColorLUT, parsed.doc).lut
             /\ submitTransfer(t, "OTHER", ok)
             /\ lastCall' =
                   Handled(IF ok THEN Sent("opcSetGlobalColorCorrection", FALSE,
                                           t, mColorLUT', <<>>)
                           ELSE Call("opcSetGlobalColorCorrection", FALSE, "fail", END),
                           msg)
             /\ UNCHANGED mFirmwareConfig

\* FCDevice::opcSetFirmwareConfiguration, with writeFirmwareConfiguration.
SetFirmwareConfiguration(msg, ok) ==
    \E t \in FreeSlots :
    /\ OtherOutstanding < MaxOther
    /\ mFirmwareConfig' = opcSetFirmwareConfiguration(mFirmwareConfig, msg).packet
    /\ writeFirmwareConfiguration(t, ok)
    /\ lastCall' =
          Handled(IF ok THEN Sent("opcSetFirmwareConfiguration", FALSE, t,
                                  mFirmwareConfig', <<>>)
                  ELSE Call("opcSetFirmwareConfiguration", FALSE, "fail", END),
                  msg)
    /\ UNCHANGED mColorLUT

\* Mutant: every ID from FCSetFirmwareConfiguration upward is taken for it.
FirmwareConfigIdOrAbove(id) == id >= FCSetFirmwareConfiguration

\* case OPC::FCSetFirmwareConfiguration:
IsFirmwareConfigId(id) == id = FCSetFirmwareConfiguration

\* FCDevice::opcSysEx
opcSysEx(msg, ok) ==
    IF Length(msg) < 4
    THEN /\ UNCHANGED <<mColorLUT, mFirmwareConfig, xferVars>>
         /\ lastCall' = Handled(Call("opcSysEx", FALSE, "none", END), msg)
    ELSE IF SysExId(msg) = FCSetGlobalColorCorrection
    THEN opcSetGlobalColorCorrection(msg, ok)
    ELSE IF IsFirmwareConfigId(SysExId(msg))
    THEN SetFirmwareConfiguration(msg, ok)
    ELSE /\ UNCHANGED <<mColorLUT, mFirmwareConfig, xferVars>>
         /\ lastCall' = Handled(Call("opcSysEx", FALSE, "none", END), msg)

\* burst after a client frame write: a write whose submission failed is not counted.
BurstAfterWrite(ok) ==
    IF ~AtFrameCap /\ ~ok THEN burst ELSE Min(burst + 1, MAX_FRAMES_PENDING + 1)

\* FCDevice::writeMessage
WriteMessage(msg, ok) ==
    /\ alive
    /\ pc = "idle"
    /\ IF msg.command = SetPixelColors
       THEN /\ mFramebuffer' = opcSetPixelColors(mFramebuffer, mConfigMap, msg)
            /\ writeFramebuffer("writeMessage", mFramebuffer', ok)
            /\ burst' = BurstAfterWrite(ok)
            /\ UNCHANGED <<mFirmwareConfig, mColorLUT>>
       ELSE IF msg.command = SystemExclusive
       THEN /\ opcSysEx(msg, ok)
            /\ UNCHANGED <<mFramebuffer, mNumFramesPending, mFrameWaitingForSubmit,
                           burst, dropped>>
       ELSE /\ UNCHANGED <<mFramebuffer, mFirmwareConfig, mColorLUT, mNumFramesPending,
                           mFrameWaitingForSubmit, xferVars, burst, dropped>>
            /\ lastCall' = Handled(Call("writeMessage", FALSE, "none", END), msg)
    /\ UNCHANGED <<alive, mConfigMap, cancelRequested, pc, current, cleanPass, mapIn,
                   passStart, netVars,
                   mapOut>>

\* Mutant: the callback marks every Transfer finished.
FinishedAllAfterCallback(t) == [u \in Slots |-> TRUE]

\* fct->finished = true
FinishedAfterCallback(t) == [finished EXCEPT ![t] = TRUE]

\* FCDevice::completeTransfer, run by libusb when the operation of the
\* Transfer at t ends (done, failed, timed out or cancelled).
CompleteTransfer(t) ==
    /\ t \in usbActive
    /\ finished' = FinishedAfterCallback(t)
    /\ usbActive' = usbActive \ {t}
    /\ cleanPass' = (cleanPass /\ ~(pc = "flush" /\ t \in mPending))
    /\ lastCall' = Call("completeTransfer", FALSE, "none", END)
    /\ UNCHANGED <<devVars, mPending, pendingOrder, alloc, xtype, burst, dropped, mapIn, mapOut,
                   passStart, netVars>>

\* The place of element t of mPending in the set's order.
Position(t) == CHOOSE i \in 1 .. Len(pendingOrder) : pendingOrder[i] = t

\* The element of mPending after t in iteration order, END if none;
\* NextInSet(END) is mPending.begin().
NextInSet(t) ==
    LET i == IF t = END THEN 0 ELSE Position(t)
    IN  IF i < Len(pendingOrder) THEN pendingOrder[i + 1] ELSE END

\* flush: current = mPending.begin()
FlushBegin ==
    /\ alive
    /\ pc = "idle"
    /\ pc' = "flush"
    /\ current' = NextInSet(END)
    /\ cleanPass' = \A t \in mPending : ~finished[t]
    /\ passStart' = {t \in mPending : finished[t]}
    /\ lastCall' = Call("flush", FALSE, "none", END)
    /\ UNCHANGED <<alive, mConfigMap, mNumFramesPending, mFrameWaitingForSubmit,
                   mFramebuffer, mFirmwareConfig, mColorLUT, cancelRequested, xferVars,
                   burst, dropped, mapIn, mapOut, netVars>>

\* Mutant: the reap loop does not test the completion flag.
ReapUnfinished(t) == TRUE

\* if (fct->finished)
IsFinished(t) == finished[t]

\* Mutant: the counter is decremented for a Transfer of any type.
FramesAfterReapAnyType(t) == mNumFramesPending - 1

\* switch (fct->type) { case FRAME: mNumFramesPending--; break; default: break; }
FramesAfterReap(t) ==
    IF xtype[t] = "FRAME" THEN mNumFramesPending - 1 ELSE mNumFramesPending

\* flush: one iteration of the reap loop, at `current`.
FlushStep ==
    /\ pc = "flush"
    /\ current # END
    /\ current' = NextInSet(current)
    /\ IF IsFinished(current)
       THEN /\ mNumFramesPending' = FramesAfterReap(current)
            /\ burst' = (IF xtype[current] = "FRAME" THEN 0 ELSE burst)
            /\ mPending' = mPending \ {current}
            /\ pendingOrder' = SelectSeq(pendingOrder, LAMBDA u : u # current)
            /\ alloc' = alloc \ {current}
            /\ xtype' = [xtype EXCEPT ![current] = "OTHER"]
            /\ finished' = [finished EXCEPT ![current] = FALSE]
            /\ UNCHANGED usbActive
            /\ lastCall' = Reaped(current)
       ELSE /\ UNCHANGED <<mNumFramesPending, burst, xferVars>>
            /\ lastCall' = Call("flush", FALSE, "none", END)
    /\ UNCHANGED <<alive, mConfigMap, mFrameWaitingForSubmit, mFramebuffer,
                   mFirmwareConfig, mColorLUT, cancelRequested, pc, cleanPass, dropped,
                   mapIn, passStart, netVars, mapOut>>

\* Mutant: flush sends a frame whenever there is room, deferred or not.
ResubmitWheneverRoom == mNumFramesPending < MAX_FRAMES_PENDING

\* if (mFrameWaitingForSubmit && mNumFramesPending < MAX_FRAMES_PENDING)
ResubmitWanted == mFrameWaitingForSubmit /\ mNumFramesPending < MAX_FRAMES_PENDING

\* flush: after the loop, send the deferred frame if there is room.
FlushEnd(ok) ==
    /\ pc = "flush"
    /\ current = END
    /\ pc' = "idle"
    /\ cleanPass' = FALSE
    /\ IF ResubmitWanted
       THEN writeFramebuffer("flush", mFramebuffer, ok)
       ELSE /\ UNCHANGED <<mNumFramesPending, mFrameWaitingForSubmit, xferVars, dropped>>
            /\ lastCall' = Call("flush", FALSE, "none", END)
    /\ passStart' = {}
    /\ UNCHANGED <<alive, mConfigMap, mFramebuffer, mFirmwareConfig, mColorLUT,
                   cancelRequested, current, burst, mapIn, mapOut, netVars>>

\* Mutant: the destructor deletes the pending Transfers itself.
AllocFreedByDestructor == alloc \ mPending

\* What the destructor leaves of the Transfer objects: it deletes none.
AllocAfterDestructor == alloc

\* FCDevice::~FCDevice: libusb_cancel_transfer on every element of mPending.
Destructor ==
    /\ alive
    /\ pc = "idle"
    /\ alive' = FALSE
    /\ cancelRequested' = cancelRequested \cup mPending
    /\ alloc' = AllocAfterDestructor
    /\ lastCall' = Call("destructor", FALSE, "none", END)
    /\ UNCHANGED <<mConfigMap, mNumFramesPending, mFrameWaitingForSubmit, mPending,
                   pendingOrder,
                   mFramebuffer, mFirmwareConfig, mColorLUT, xtype, finished, usbActive,
                   pc, current, burst, cleanPass, dropped, mapIn, mapOut,
                   passStart, netVars>>

Next ==
    \/ \E c \in SessionConfigs, ok \in BOOLEAN : MatchConfiguration(c, ok)
    \/ \E m \in SessionMessages, ok \in BOOLEAN : WriteMessage(m, ok)
    \/ \E t \in Slots : CompleteTransfer(t)
    \/ FlushBegin
    \/ FlushStep
    \/ \E ok \in BOOLEAN : FlushEnd(ok)
    \/ Destructor

Spec == Init /\ [][Next]_vars

\* The session of mixed messages: the same operations on DispatchMessages
\* and DispatchConfigs, for as long as the device exists.
DispatchNext ==
    \/ \E c \in DispatchConfigs, ok \in BOOLEAN : MatchConfiguration(c, ok)
    \/ \E m \in DispatchMessages, ok \in BOOLEAN : WriteMessage(m, ok)
    \/ \E t \in Slots : CompleteTransfer(t)
    \/ FlushBegin
    \/ FlushStep
    \/ \E ok \in BOOLEAN : FlushEnd(ok)

DispatchSpec == Init /\ [][DispatchNext]_vars

\* Scheduling: the server's I/O loop calls flush on every iteration for as
\* long as the device exists, and a pass once begun runs to its end; libusb
\* ends every operation it accepted (each Transfer carries a time-out) and
\* then runs its callback.
Fairness ==
    /\ WF_vars(FlushBegin)
    /\ WF_vars(FlushStep)
    /\ WF_vars(\E ok \in BOOLEAN : FlushEnd(ok))
    /\ \A t \in Slots : WF_vars(CompleteTransfer(t))

FairSpec == Spec /\ Fairness

\* The resubmission of a deferred frame does not fail for ever.
SubmissionsSucceed == SF_vars(ResubmitWanted /\ FlushEnd(TRUE))

ProvisoSpec == Spec /\ Fairness /\ SubmissionsSucceed

---------------------------------------------------------------------------
(* Properties of the transfer lifecycle and the frame backpressure policy *)

FramesInFlight == {t \in mPending : xtype[t] = "FRAME"}
NoneFinished == \A t \in mPending : ~finished[t]

\* C1: mNumFramesPending always lies in 0 .. MAX_FRAMES_PENDING, and a
\* writeFramebuffer call made at the cap submits nothing, sets
\* mFrameWaitingForSubmit and leaves the counter and mPending as they were.
C1_FrameCap ==
    /\ [](mNumFramesPending >= 0 /\ mNumFramesPending <= MAX_FRAMES_PENDING)
    /\ [][(lastCall'.fb /\ mNumFramesPending >= MAX_FRAMES_PENDING)
            => /\ lastCall'.submit = "none"
               /\ mFrameWaitingForSubmit'
               /\ mNumFramesPending' = mNumFramesPending
               /\ mPending' = mPending
               /\ alloc' = alloc]_vars

\* C1 witness: a client frame write was deferred at the cap.
C1_Witness ==
    /\ lastCall.op = "writeMessage"
    /\ lastCall.fb
    /\ lastCall.submit = "none"
    /\ mNumFramesPending = MAX_FRAMES_PENDING
    /\ mFrameWaitingForSubmit

\* C2: after MAX_FRAMES_PENDING + 1 frame writes with no frame reaped in
\* between, exactly MAX_FRAMES_PENDING frames are in flight and
\* mFrameWaitingForSubmit is set; the end of a reap pass that finds the flag
\* set and room under the cap submits one frame, holding the framebuffer as
\* it is then, and clears the flag; a pass submits nothing otherwise, and
\* never more than one Transfer.
C2_LatestFrameWins ==
    /\ [](burst = MAX_FRAMES_PENDING + 1
            => /\ Cardinality(FramesInFlight) = MAX_FRAMES_PENDING
               /\ mNumFramesPending = MAX_FRAMES_PENDING
               /\ mFrameWaitingForSubmit)
    /\ [][lastCall'.op = "flush"
            => IF pc = "flush" /\ pc' = "idle" /\ mFrameWaitingForSubmit
                  /\ mNumFramesPending < MAX_FRAMES_PENDING
               THEN /\ lastCall'.fb
                    /\ lastCall'.submit \in {"ok", "fail"}
                    /\ lastCall'.submit = "ok"
                         => /\ lastCall'.slot \notin mPending
                            /\ mPending' = mPending \cup {lastCall'.slot}
                            /\ xtype'[lastCall'.slot] = "FRAME"
                            /\ lastCall'.sent = mFramebuffer
                            /\ mFramebuffer' = mFramebuffer
                            /\ ~mFrameWaitingForSubmit'
                            /\ mNumFramesPending' = mNumFramesPending + 1
                    /\ lastCall'.submit = "fail" => mPending' = mPending
               ELSE /\ lastCall'.submit = "none"
                    /\ mPending' \subseteq mPending]_vars

\* C2 witness: a reap pass has just sent the deferred frame, and what it
\* sent differs from the framebuffer at the time of the drop.
C2_Witness ==
    /\ lastCall.op = "flush"
    /\ lastCall.submit = "ok"
    /\ lastCall.sent = mFramebuffer
    /\ lastCall.deferred # <<>>
    /\ lastCall.deferred # lastCall.sent
    /\ mNumFramesPending = MAX_FRAMES_PENDING

\* A step of flush belongs to a pass during which, so far, no Transfer of
\* mPending has had its completion flag set.
InCleanPass == IF pc = "idle" THEN NoneFinished ELSE cleanPass

\* C3 as stated: every step of a reap pass that runs while no Transfer in
\* mPending has its flag set leaves mPending and both counters as they
\* were and queues no Transfer.
C3_Original ==
    [][(lastCall'.op = "flush" /\ InCleanPass)
         => /\ mPending' = mPending
            /\ mNumFramesPending' = mNumFramesPending
            /\ mFrameWaitingForSubmit' = mFrameWaitingForSubmit
            /\ lastCall'.submit # "ok"]_vars

\* C3 amended: the same, for a pass that finds no deferred frame with room
\* under the cap (mFrameWaitingForSubmit with mNumFramesPending below
\* MAX_FRAMES_PENDING, the state a failed resubmission leaves).
C3_ReapIdempotent ==
    [][(/\ lastCall'.op = "flush"
        /\ InCleanPass
        /\ ~(mFrameWaitingForSubmit /\ mNumFramesPending < MAX_FRAMES_PENDING))
         => /\ mPending' = mPending
            /\ alloc' = alloc
            /\ mNumFramesPending' = mNumFramesPending
            /\ mFrameWaitingForSubmit' = mFrameWaitingForSubmit
            /\ lastCall'.submit = "none"]_vars

\* C3 witness: a pass has ended with every address in flight and none
\* completed, so it visited them all, reaped none and submitted nothing.
C3_Witness ==
    /\ lastCall.op = "flush"
    /\ lastCall.submit = "none"
    /\ pc = "idle"
    /\ mPending = Slots
    /\ usbActive = Slots

\* C4: a Transfer is deleted only when it is a live object, and a queued
\* one only by flush, after its flag was set and its operation ended; the
\* Transfers libusb still holds, those in mPending and the one under
\* flush's iterator are live objects, so no callback runs on a deleted one
\* and none is deleted twice.
C4_DestroyedOnceAfterCompletion ==
    [][\A t \in Slots :
         /\ (t \in alloc /\ t \notin alloc')
              => /\ t \in mPending
                 /\ t \notin mPending'
                 /\ lastCall'.op = "flush"
                 /\ finished[t]
                 /\ t \notin usbActive
         /\ t \in usbActive' => t \in alloc'
         /\ (alive' /\ t \in mPending') => t \in alloc'
         /\ (pc' = "flush" /\ current' = t) => (t \in mPending' /\ t \in alloc')]_vars

\* C4 witness: flush has just deleted a completed Transfer.
C4_Witness ==
    /\ lastCall.reaped # END
    /\ lastCall.reaped \notin alloc
    /\ lastCall.reaped \notin usbActive

\* C6: submitTransfer reports success exactly when the Transfer joined
\* mPending; when it reports failure, mPending, the live Transfers and both
\* counters are as before the call.
C6_SubmitFailureLeavesState ==
    [][/\ lastCall'.submit = "ok"
            => /\ lastCall'.slot \notin mPending
               /\ mPending' = mPending \cup {lastCall'.slot}
               /\ lastCall'.slot \in usbActive'
       /\ lastCall'.submit = "fail"
            => /\ mPending' = mPending
               /\ alloc' = alloc
               /\ usbActive' = usbActive
               /\ mNumFramesPending' = mNumFramesPending
               /\ mFrameWaitingForSubmit' = mFrameWaitingForSubmit
       /\ lastCall'.submit = "none" => mPending' \subseteq mPending]_vars

\* C6 witness: a frame submission has just failed with a frame in flight.
C6_Witness ==
    /\ lastCall.submit = "fail"
    /\ lastCall.fb
    /\ mNumFramesPending = 1
    /\ Cardinality(mPending) = 1

\* C8: the destructor calls libusb_cancel_transfer on exactly the elements
\* of mPending and deletes none of them: each is still a live object, and
\* libusb holds the same operations as before.
C8_TeardownCancelsOnly ==
    [][(alive /\ ~alive')
         => /\ cancelRequested' = mPending
            /\ alloc' = alloc
            /\ mPending \subseteq alloc'
            /\ usbActive' = usbActive
            /\ finished' = finished]_vars

\* C8 witness: the device was torn down with a Transfer in flight whose
\* callback has not run yet.
C8_Witness ==
    /\ ~alive
    /\ cancelRequested \cap usbActive # {}
    /\ cancelRequested \subseteq alloc

\* C5: every Transfer object that exists is eventually deleted, those
\* still queued when the device is destroyed included.
C5_EveryTransferFreed == \A t \in Slots : (t \in alloc) ~> (t \notin alloc)

\* C7: while the device exists, flush keeps running, operations complete
\* and resubmission does not fail for ever, a set mFrameWaitingForSubmit is
\* eventually cleared; and only a successful frame submission clears it.
C7_DeferredFrameSent ==
    /\ (alive /\ mFrameWaitingForSubmit) ~> (~mFrameWaitingForSubmit \/ ~alive)
    /\ [][(mFrameWaitingForSubmit /\ ~mFrameWaitingForSubmit')
            => /\ lastCall'.fb
               /\ lastCall'.submit = "ok"
               /\ xtype'[lastCall'.slot] = "FRAME"
               /\ lastCall'.slot \in mPending']_vars

\* C7 witness: the deferred frame went out at the end of a reap pass,
\* leaving one frame in flight.
C7_Witness ==
    /\ alive
    /\ lastCall.op = "flush"
    /\ lastCall.submit = "ok"
    /\ ~mFrameWaitingForSubmit
    /\ xtype[lastCall.slot] = "FRAME"
    /\ mNumFramesPending = 1

---------------------------------------------------------------------------
(* The pixel mapper on its own: one call on drawn inputs *)

\* Two RGB triples on channel 2.
MsgA2 == Message(2, SetPixelColors, <<10, 20, 30, 40, 50, 60>>)
\* No payload.
MsgEmpty == Message(1, SetPixelColors, <<>>)
\* Two bytes: no whole triple.
MsgShort == Message(1, SetPixelColors, <<7, 8>>)
\* More triples than the framebuffer has pixels, and one trailing byte.
MsgLong ==
    Message(1, SetPixelColors,
            [k \in 1 .. (3 * (NUM_PIXELS + 2) + 1) |-> 100 + k])

\* Two RGB triples on channel 0.
MsgA0 == Message(0, SetPixelColors, <<10, 20, 30, 40, 50, 60>>)

MapMessages == {MsgA, MsgA2, MsgA0, MsgEmpty, MsgShort, MsgLong}

MapFirstOPC == {0, 1, 2, NUM_PIXELS + 3, UINT_MAX}
MapFirstOut == {0, 1, NUM_PIXELS - 1, NUM_PIXELS, NUM_PIXELS + 1, UINT_MAX}
MapCount == {0, 1, 2, NUM_PIXELS + 4, UINT_MAX}

\* Instructions of the wrong shape or type.
MalformedInsts ==
    {JString,
     JArray(<<JUint(1), JUint(0), JUint(0)>>),
     JArray(<<JUint(1), JInt(-1), JUint(0), JUint(2)>>),
     JArray(<<JUint(1), JUint(0), JString, JUint(2)>>),
     JArray(<<JUint(1), JUint(0), JUint(0), JUint(2), JUint(0)>>)}

MapInsts ==
    {Rule(c, o, f, n) : c \in {1, 2}, o \in MapFirstOPC, f \in MapFirstOut, n \in MapCount}
    \cup MalformedInsts

\* Overlapping destinations: the later rule overwrites pixel 0.
TableOverlap == JArray(<<Rule(1, 0, 0, 2), Rule(1, 1, 0, 1), Rule(2, 0, 2, 1)>>)
\* Malformed entries between well-formed ones.
TableMixed ==
    JArray(<<JArray(<<JUint(1), JUint(0), JUint(0)>>), Rule(1, 0, 1, UINT_MAX),
             JString, Rule(2, 1, 0, 1)>>)
\* Rules that the clamps cut down or empty.
TableClamp ==
    JArray(<<Rule(1, 1, NUM_PIXELS - 1, 5), Rule(1, UINT_MAX, 0, 1),
             Rule(1, 0, UINT_MAX, 1)>>)

MapTables == {NullMap, JArray(<<>>), Table1, TableOverlap, TableMixed, TableClamp}

\* A framebuffer whose pixels hold earlier data (the unused tail of the
\* last packet is never written and stays zero).
FilledFramebuffer ==
    [i \in 0 .. (FRAMEBUFFER_PACKETS - 1) |->
        [control |-> InitFramebuffer[i].control,
         data |-> [k \in 0 .. (PACKET_DATA_SIZE - 1) |->
                      IF i * PIXELS_PER_PACKET + (k \div 3) < NUM_PIXELS
                      THEN 200 + i * PACKET_DATA_SIZE + k
                      ELSE 0]]]

\* A session with a mapping table bound and no Transfer in flight (the
\* configuration transfer of matchConfiguration failed to submit), about
\* to run the mapper on a drawn message.
MapInit ==
    /\ alive = TRUE
    /\ mNumFramesPending = 0
    /\ mFrameWaitingForSubmit = FALSE
    /\ mPending = {}
    /\ pendingOrder = <<>>
    /\ mFramebuffer \in {InitFramebuffer, FilledFramebuffer}
    /\ mFirmwareConfig = InitFirmwareConfig
    /\ mColorLUT = InitColorLUT
    /\ alloc = {}
    /\ xtype = [t \in Slots |-> "OTHER"]
    /\ finished = [t \in Slots |-> FALSE]
    /\ usbActive = {}
    /\ cancelRequested = {}
    /\ pc = "idle"
    /\ current = END
    /\ lastCall = Call("matchConfiguration", FALSE, "fail", END)
    /\ burst = 0
    /\ cleanPass = FALSE
    /\ dropped = <<>>
    /\ \E m \in MapMessages :
          \/ /\ mConfigMap = Table1
             /\ \E inst \in MapInsts : mapIn = [msg |-> m, inst |-> inst]
          \/ /\ mConfigMap \in MapTables
             /\ mapIn = [msg |-> m, inst |-> JString]
    /\ mapOut = NoMapOut
    /\ passStart = {}
    /\ client = NoClient
    /\ wire = NoWire

\* opcMapPixelColors(mapIn.msg, mapIn.inst)
CallOpcMapPixelColors ==
    /\ mapOut.op = "none"
    /\ LET r == opcMapPixelColors(mFramebuffer, mapIn.msg, mapIn.inst)
       IN  /\ mFramebuffer' = r.fb
           /\ mapOut' = [op |-> "map", before |-> mFramebuffer,
                         reads |-> r.reads, writes |-> r.writes]
    /\ UNCHANGED <<alive, mConfigMap, mNumFramesPending, mFrameWaitingForSubmit,
                   mFirmwareConfig, mColorLUT, cancelRequested, pc, current, xferVars,
                   lastCall, burst, cleanPass, dropped, mapIn, passStart, netVars>>

\* opcSetPixelColors(mapIn.msg)
CallOpcSetPixelColors ==
    /\ mapOut.op = "none"
    /\ mFramebuffer' = opcSetPixelColors(mFramebuffer, mConfigMap, mapIn.msg)
    /\ mapOut' = [op |-> "set", before |-> mFramebuffer, reads |-> {}, writes |-> {}]
    /\ UNCHANGED <<alive, mConfigMap, mNumFramesPending, mFrameWaitingForSubmit,
                   mFirmwareConfig, mColorLUT, cancelRequested, pc, current, xferVars,
                   lastCall, burst, cleanPass, dropped, mapIn, passStart, netVars>>

MapNext == CallOpcMapPixelColors \/ CallOpcSetPixelColors

MapSpec == MapInit /\ [][MapNext]_vars

---------------------------------------------------------------------------
(* Properties of the pixel mapper *)

\* Whole RGB triples in a message.
Triples(msg) == Len(msg.data) \div 3

\* An instruction is an array of four unsigned integers.
FourUints(inst) ==
    /\ inst.kind = "array"
    /\ Len(inst.elems) = 4
    /\ \A k \in 1 .. 4 : inst.elems[k].kind = "uint"

\* The pixels a rule copies from a message, by the clamping formula of the
\* claim, in unbounded integers.
ExpectedSrc(inst, msg) == Min(inst.elems[2].val, Triples(msg))
ExpectedDst(inst) == Min(inst.elems[3].val, NUM_PIXELS)
ExpectedCount(inst, msg) ==
    Min(inst.elems[4].val,
        Min(Triples(msg) - ExpectedSrc(inst, msg), NUM_PIXELS - ExpectedDst(inst)))

\* C9: a call of opcMapPixelColors reads only payload offsets below
\* 3 * floor(length / 3), writes only pixels below NUM_PIXELS, and for a
\* well-formed rule of the message's channel copies exactly
\* min(count, msgPixelCount - min(firstOPC, msgPixelCount),
\*     NUM_PIXELS - min(firstOut, NUM_PIXELS)) pixels.
C9_MappingClampSafety ==
    mapOut.op = "map"
      => LET msg == mapIn.msg
             inst == mapIn.inst
         IN  /\ \A off \in mapOut.reads : off >= 0 /\ off < 3 * Triples(msg)
             /\ \A w \in mapOut.writes : w >= 0 /\ w < NUM_PIXELS
             /\ IF FourUints(inst) /\ inst.elems[1].val = msg.channel
                THEN /\ Cardinality(mapOut.writes) = ExpectedCount(inst, msg)
                     /\ Cardinality(mapOut.reads) = 3 * ExpectedCount(inst, msg)
                ELSE mapOut.writes = {} /\ mapOut.reads = {}

\* C9 witness: a rule whose firstOut and count both exceed the framebuffer
\* and whose naive room NUM_PIXELS - firstOut would underflow copied
\* nothing, on a message longer than the framebuffer.
C9_Witness ==
    /\ mapOut.op = "map"
    /\ mapIn.msg = MsgLong
    /\ mapIn.inst = Rule(1, 1, NUM_PIXELS + 1, UINT_MAX)
    /\ mapOut.writes = {}
    /\ mFramebuffer = mapOut.before

\* The table entries that copy into pixel p for a message: well-formed,
\* of the message's channel, with p inside the clamped destination range.
Covering(map, msg, p) ==
    {i \in 1 .. Len(map.elems) :
        LET inst == map.elems[i]
        IN  /\ FourUints(inst)
            /\ inst.elems[1].val = msg.channel
            /\ ExpectedDst(inst) <= p
            /\ p < ExpectedDst(inst) + ExpectedCount(inst, msg)}

\* The triple of the message that entry i copies into pixel p.
SourceTriple(map, msg, i, p) ==
    LET inst == map.elems[i]
        src == ExpectedSrc(inst, msg) + (p - ExpectedDst(inst))
    IN  <<msg.data[3 * src + 1], msg.data[3 * src + 2], msg.data[3 * src + 3]>>

Last(S) == CHOOSE i \in S : \A j \in S : j <= i

\* C10: with a table bound, after opcSetPixelColors every pixel covered by
\* a well-formed rule of the message's channel holds the source triple of
\* the last such rule in table order, every other pixel and every other
\* byte of the framebuffer is as before; the message (10,20,30),(40,50,60)
\* under the table [[1,0,0,2]] fills pixels 0 and 1 on channel 1 and
\* changes nothing on channel 2.
C10_MappingResult ==
    (mapOut.op = "set" /\ mConfigMap # NullMap)
      => LET msg == mapIn.msg
         IN  /\ \A p \in 0 .. (NUM_PIXELS - 1) :
                   Pixel(mFramebuffer, p) =
                      IF Covering(mConfigMap, msg, p) = {}
                      THEN Pixel(mapOut.before, p)
                      ELSE SourceTriple(mConfigMap, msg,
                                        Last(Covering(mConfigMap, msg, p)), p)
             /\ \A i \in 0 .. (FRAMEBUFFER_PACKETS - 1) :
                   /\ mFramebuffer[i].control = mapOut.before[i].control
                   /\ \A k \in 0 .. (PACKET_DATA_SIZE - 1) :
                         i * PIXELS_PER_PACKET + (k \div 3) >= NUM_PIXELS
                           => mFramebuffer[i].data[k] = mapOut.before[i].data[k]
             /\ (mConfigMap = Table1 /\ msg = MsgA)
                   => /\ Pixel(mFramebuffer, 0) = <<10, 20, 30>>
                      /\ Pixel(mFramebuffer, 1) = <<40, 50, 60>>
             /\ (mConfigMap = Table1 /\ msg = MsgA2)
                   => mFramebuffer = mapOut.before

\* C10 witness: the end-to-end scenario on channel 1, over earlier data.
C10_Witness ==
    /\ mapOut.op = "set"
    /\ mConfigMap = Table1
    /\ mapIn.msg = MsgA
    /\ mapOut.before = FilledFramebuffer
    /\ Pixel(mFramebuffer, 0) = <<10, 20, 30>>
    /\ Pixel(mFramebuffer, 1) = <<40, 50, 60>>
    /\ Pixel(mFramebuffer, 2) = Pixel(FilledFramebuffer, 2)

---------------------------------------------------------------------------
(* Properties of the message dispatcher *)

\* C11: while no mapping table is bound (mConfigMap is null), a
\* set-pixel-colors message delivered to writeMessage changes neither the
\* framebuffer, mPending, mNumFramesPending nor mFrameWaitingForSubmit and
\* submits no Transfer.
C11_UnboundIsNoOp ==
    [][(lastCall'.op = "writeMessage" /\ lastCall'.fb /\ mConfigMap = NullMap)
         => /\ mFramebuffer' = mFramebuffer
            /\ mPending' = mPending
            /\ mNumFramesPending' = mNumFramesPending
            /\ mFrameWaitingForSubmit' = mFrameWaitingForSubmit
            /\ lastCall'.submit # "ok"]_vars

\* A message the dispatcher rejects: a command that is neither
\* set-pixel-colors (0) nor system-exclusive (255), a system-exclusive
\* payload shorter than an extension ID, or an extension ID other than
\* 00 01 00 01 and 00 01 00 02.
IsRejected(msg) ==
    \/ msg.command \notin {0, 255}
    \/ /\ msg.command = 255
       /\ \/ Len(msg.data) < 4
          \/ SubSeq(msg.data, 1, 4) \notin {<<0, 1, 0, 1>>, <<0, 1, 0, 2>>}

\* C12: the handling of a rejected message leaves the framebuffer, the
\* color LUT, the configuration packet, the mapping table, mPending, the
\* Transfers and both counters as they were and submits nothing, so that
\* whatever is delivered next finds the state the rejected message found.
C12_RejectedMessageDropped ==
    [][(lastCall'.msg # <<>> /\ IsRejected(lastCall'.msg))
         => /\ mFramebuffer' = mFramebuffer
            /\ mColorLUT' = mColorLUT
            /\ mFirmwareConfig' = mFirmwareConfig
            /\ mConfigMap' = mConfigMap
            /\ mPending' = mPending
            /\ alloc' = alloc
            /\ usbActive' = usbActive
            /\ finished' = finished
            /\ mNumFramesPending' = mNumFramesPending
            /\ mFrameWaitingForSubmit' = mFrameWaitingForSubmit
            /\ alive' = alive
            /\ pc' = pc
            /\ lastCall'.submit = "none"]_vars

\* C12 witness: a message with an unknown extension ID was dropped by a
\* session that has a recomputed LUT, a bound table and a deferred frame.
C12_Witness ==
    /\ lastCall.op = "opcSysEx"
    /\ lastCall.msg = MsgSysExUnknown
    /\ lastCall.submit = "none"
    /\ mColorLUT # InitColorLUT
    /\ mConfigMap = Table1
    /\ mFrameWaitingForSubmit
    /\ alive

\* C13: a color-correction message whose text fails to parse changes
\* neither the LUT, mPending nor the counters and submits nothing; one
\* whose text parses rewrites every LUT entry from the parsed parameters,
\* whatever the LUT held, and makes exactly one submission, of the LUT,
\* which joins mPending when it succeeds; the frame counter and the
\* deferred-frame flag are untouched either way.
C13_ColorParseFailure ==
    [][lastCall'.op = "opcSetGlobalColorCorrection"
         => LET parsed == ParseInsitu(SubSeq(lastCall'.msg.data, 5,
                                             Len(lastCall'.msg.data)))
            IN  /\ mNumFramesPending' = mNumFramesPending
                /\ mFrameWaitingForSubmit' = mFrameWaitingForSubmit
                /\ mFramebuffer' = mFramebuffer
                /\ mFirmwareConfig' = mFirmwareConfig
                /\ IF parsed.error
                   THEN /\ mColorLUT' = mColorLUT
                        /\ mPending' = mPending
                        /\ alloc' = alloc
                        /\ usbActive' = usbActive
                        /\ lastCall'.submit = "none"
                   ELSE /\ mColorLUT' = writeColorCorrection(InitColorLUT, parsed.doc).lut
                        /\ lastCall'.submit \in {"ok", "fail"}
                        /\ lastCall'.submit = "ok"
                             => /\ lastCall'.slot \notin mPending
                                /\ mPending' = mPending \cup {lastCall'.slot}
                                /\ xtype'[lastCall'.slot] = "OTHER"
                                /\ lastCall'.sent = mColorLUT'
                        /\ lastCall'.submit = "fail"
                             => /\ mPending' = mPending
                                /\ alloc' = alloc]_vars

\* C13 witness: a text that does not parse was dropped by a session whose
\* LUT had been recomputed before, and the LUT is still the recomputed one.
C13_Witness ==
    /\ lastCall.op = "opcSetGlobalColorCorrection"
    /\ lastCall.msg = MsgColorBad
    /\ lastCall.submit = "none"
    /\ mColorLUT = writeColorCorrection(InitColorLUT, ParseInsitu(TextWhitepoint).doc).lut
    /\ mColorLUT # InitColorLUT

---------------------------------------------------------------------------
(* Sessions that deliver one drawn message again and again *)

\* Firmware configuration with n bytes after the extension ID.
MsgConfigN(n) == SysEx(FCSetFirmwareConfiguration, [k \in 1 .. n |-> 30 + k])

\* Color correction with each of the texts.
ColorTexts ==
    {TextEmptyObject, TextArray, TextWhitepoint, TextSlope, TextBadGamma,
     TextTruncated, TextNoQuotes, TextEmpty}

SysExMessages ==
    {MsgConfigN(n) : n \in 0 .. (CONFIG_DATA_SIZE + 2)}
    \cup {SysEx(FCSetGlobalColorCorrection, text) : text \in ColorTexts}
    \cup {MsgSysExShort, MsgSysExUnknown}

\* The configuration packet and the LUT as earlier messages left them.
FilledFirmwareConfig ==
    [control |-> TYPE_CONFIG, data |-> [k \in 0 .. (CONFIG_DATA_SIZE - 1) |-> 90 + k]]
FilledColorLUT == writeColorCorrection(InitColorLUT, ParseInsitu(TextWhitepoint).doc).lut

\* A device with no Transfer in flight, whose configuration packet and LUT
\* are as constructed or as earlier messages left them, and the message
\* its client sends.
SysExInit ==
    /\ alive = TRUE
    /\ mConfigMap = NullMap
    /\ mNumFramesPending = 0
    /\ mFrameWaitingForSubmit = FALSE
    /\ mPending = {}
    /\ pendingOrder = <<>>
    /\ mFramebuffer = InitFramebuffer
    /\ mFirmwareConfig \in {InitFirmwareConfig, FilledFirmwareConfig}
    /\ mColorLUT \in {InitColorLUT, FilledColorLUT}
    /\ alloc = {}
    /\ xtype = [t \in Slots |-> "OTHER"]
    /\ finished = [t \in Slots |-> FALSE]
    /\ usbActive = {}
    /\ cancelRequested = {}
    /\ pc = "idle"
    /\ current = END
    /\ lastCall = Call("construct", FALSE, "none", END)
    /\ burst = 0
    /\ dropped = <<>>
    /\ cleanPass = FALSE
    /\ \E m \in SysExMessages : mapIn = [msg |-> m, inst |-> JString]
    /\ mapOut = NoMapOut
    /\ passStart = {}
    /\ client = NoClient
    /\ wire = NoWire

SysExNext ==
    \/ \E ok \in BOOLEAN : WriteMessage(mapIn.msg, ok)
    \/ \E t \in Slots : CompleteTransfer(t)
    \/ FlushBegin
    \/ FlushStep
    \/ \E ok \in BOOLEAN : FlushEnd(ok)

SysExSpec == SysExInit /\ [][SysExNext]_vars

\* C14: a set-firmware-configuration message with n bytes after the
\* extension ID puts the first min(n, CONFIG_DATA_SIZE) of them at the start
\* of mFirmwareConfig.data, leaves the rest of the payload and the control
\* byte (TYPE_CONFIG) as they were, writes no byte past the payload, and
\* makes exactly one submission, of the configuration packet.
C14_FirmwareConfigCopy ==
    [][lastCall'.op = "opcSetFirmwareConfiguration"
         => LET msg == lastCall'.msg
                n == Len(msg.data) - 4
                copied == IF n < CONFIG_DATA_SIZE THEN n ELSE CONFIG_DATA_SIZE
            IN  /\ n >= 0
                /\ DOMAIN mFirmwareConfig'.data = 0 .. (CONFIG_DATA_SIZE - 1)
                /\ \A k \in 0 .. (CONFIG_DATA_SIZE - 1) :
                      mFirmwareConfig'.data[k] =
                         IF k < copied THEN msg.data[5 + k] ELSE mFirmwareConfig.data[k]
                /\ opcSetFirmwareConfiguration(mFirmwareConfig, msg).writes
                      = 0 .. (copied - 1)
                /\ mFirmwareConfig'.control = TYPE_CONFIG
                /\ mColorLUT' = mColorLUT
                /\ lastCall'.submit \in {"ok", "fail"}
                /\ lastCall'.submit = "ok"
                     => /\ lastCall'.slot \notin mPending
                        /\ mPending' = mPending \cup {lastCall'.slot}
                        /\ lastCall'.sent = mFirmwareConfig'
                /\ lastCall'.submit = "fail" => mPending' = mPending]_vars

\* C14 witness: a message with two bytes more than the payload holds was
\* truncated to the payload size over earlier contents, and submitted.
C14_Witness ==
    /\ lastCall.op = "opcSetFirmwareConfiguration"
    /\ lastCall.msg = MsgConfigN(CONFIG_DATA_SIZE + 2)
    /\ lastCall.submit = "ok"
    /\ mFirmwareConfig.data = [k \in 0 .. (CONFIG_DATA_SIZE - 1) |-> 31 + k]
    /\ mFirmwareConfig # FilledFirmwareConfig
    /\ lastCall.slot \in mPending

\* The control byte a packet of type `type` with sequence index i carries
\* in a structure of `count` packets: the type, the index, and the final
\* marker on the last packet only.
Header(type, i, count) == type + i + (IF i = count - 1 THEN FINAL ELSE 0)

\* The final-marker bit of a control byte.
HasFinalBit(control) == (control \div FINAL) % 2 = 1

\* C15: in every state of a session of set-pixel-colors, color-correction
\* and firmware-configuration messages, framebuffer packet i carries
\* (TYPE_FRAMEBUFFER, i), LUT packet i carries (TYPE_LUT, i), the final
\* marker is on exactly the last packet of each, and the configuration
\* packet carries TYPE_CONFIG; and every byte the LUT writer stores lies in
\* the payload of one of the LUT_PACKETS packets, after its padding byte.
C15_PacketHeaders ==
    /\ [](/\ DOMAIN mFramebuffer = 0 .. (FRAMEBUFFER_PACKETS - 1)
          /\ \A i \in 0 .. (FRAMEBUFFER_PACKETS - 1) :
                /\ mFramebuffer[i].control
                     = Header(TYPE_FRAMEBUFFER, i, FRAMEBUFFER_PACKETS)
                /\ HasFinalBit(mFramebuffer[i].control) <=> (i = FRAMEBUFFER_PACKETS - 1)
          /\ DOMAIN mColorLUT = 0 .. (LUT_PACKETS - 1)
          /\ \A i \in 0 .. (LUT_PACKETS - 1) :
                /\ mColorLUT[i].control = Header(TYPE_LUT, i, LUT_PACKETS)
                /\ HasFinalBit(mColorLUT[i].control) <=> (i = LUT_PACKETS - 1)
                /\ mColorLUT[i].data[0] = 0
          /\ mFirmwareConfig.control = TYPE_CONFIG)
    /\ [][(lastCall'.op = "opcSetGlobalColorCorrection" /\ lastCall'.submit # "none")
            => LET doc == ParseInsitu(SubSeq(lastCall'.msg.data, 5,
                                             Len(lastCall'.msg.data))).doc
               IN  \A a \in writeColorCorrection(mColorLUT, doc).writes :
                      /\ a >= 0
                      /\ a \div (1 + LUT_DATA_SIZE) < LUT_PACKETS
                      /\ a % (1 + LUT_DATA_SIZE) >= 2]_vars

\* C15 witness: pixels were copied, the LUT recomputed and the
\* configuration payload replaced, and the last LUT packet holds an entry.
C15_Witness ==
    /\ mFramebuffer # InitFramebuffer
    /\ mColorLUT # InitColorLUT
    /\ mFirmwareConfig # InitFirmwareConfig
    /\ mColorLUT[LUT_PACKETS - 1].control = TYPE_LUT + (LUT_PACKETS - 1) + FINAL
    /\ mColorLUT[0].data[firstByteOffset + 2] = 255

\* C16: after a color-correction message whose text parses, the two bytes
\* of every LUT entry (channel, entry), low byte first, hold
\* min(65535, max(0, longValue)) for the 64-bit value computed for that
\* entry, also when that value is above 65535 or negative.
C16_QuantizationClamp ==
    [][(lastCall'.op = "opcSetGlobalColorCorrection" /\ lastCall'.submit # "none")
         => LET doc == ParseInsitu(SubSeq(lastCall'.msg.data, 5,
                                          Len(lastCall'.msg.data))).doc
            IN  \A channel \in 0 .. 2 : \A entry \in 0 .. (LUT_ENTRIES - 1) :
                   LET n == channel * LUT_ENTRIES + entry
                       p == n \div LUT_PACKET_ENTRIES
                       o == 1 + 2 * (n % LUT_PACKET_ENTRIES)
                       value == LongValue(doc, channel, entry)
                       clamped == IF value < 0 THEN 0
                                  ELSE IF value > 65535 THEN 65535 ELSE value
                   IN  /\ mColorLUT'[p].data[o] = clamped % 256
                       /\ mColorLUT'[p].data[o + 1] = clamped \div 256]_vars

\* C16 witness: a LUT written from a whitepoint that gives one entry a
\* value above 65535, stored as 65535, and another a negative value, stored
\* as 0.
C16_Witness ==
    /\ lastCall.op = "opcSetGlobalColorCorrection"
    /\ lastCall.submit = "ok"
    /\ LET doc == ParseInsitu(SubSeq(lastCall.msg.data, 5, Len(lastCall.msg.data))).doc
       IN  /\ LongValue(doc, 0, 1) > 65535
           /\ mColorLUT[0].data[3] = 255 /\ mColorLUT[0].data[4] = 255
           /\ LongValue(doc, 2, 1) < 0
           /\ LET n == 2 * LUT_ENTRIES + 1
              IN  /\ mColorLUT[n \div LUT_PACKET_ENTRIES].data[1 + 2 * (n % LUT_PACKET_ENTRIES)] = 0
                  /\ mColorLUT[n \div LUT_PACKET_ENTRIES].data[2 + 2 * (n % LUT_PACKET_ENTRIES)] = 0

---------------------------------------------------------------------------
(* Channel addressing *)

\* The table entries that would copy into pixel p if a message of channel 0
\* were addressed to the rules of every channel.
CoveringBroadcast(map, msg, p) ==
    {i \in 1 .. Len(map.elems) :
        LET inst == map.elems[i]
        IN  /\ FourUints(inst)
            /\ (msg.channel = 0 \/ inst.elems[1].val = msg.channel)
            /\ ExpectedDst(inst) <= p
            /\ p < ExpectedDst(inst) + ExpectedCount(inst, msg)}

\* C17: with a table bound, a set-pixel-colors message of channel 0 is
\* applied by the well-formed rules of every channel, and a message of
\* channel c >= 1 only by the rules of channel c: after opcSetPixelColors
\* every pixel holds the source triple of the last rule that applies to it,
\* or its earlier value if none does.
C17_ChannelZeroBroadcast ==
    (mapOut.op = "set" /\ mConfigMap # NullMap)
      => \A p \in 0 .. (NUM_PIXELS - 1) :
            Pixel(mFramebuffer, p) =
               IF CoveringBroadcast(mConfigMap, mapIn.msg, p) = {}
               THEN Pixel(mapOut.before, p)
               ELSE SourceTriple(mConfigMap, mapIn.msg,
                                 Last(CoveringBroadcast(mConfigMap, mapIn.msg, p)), p)

---------------------------------------------------------------------------
(* One connection of NetServer, its stream arriving in pieces *)

\* Three OPC messages: pixels on channel 1, an empty message on channel 0,
\* a system-exclusive message.
StreamThree ==
    <<1, 0, 0, 3, 10, 20, 30>> \o <<0, 0, 0, 0>> \o <<2, 255, 0, 5, 0, 1, 0, 2, 9>>
\* The streams delivered: StreamThree; two pixel messages; three empty
\* messages; a message whose declared length (6) is one more than what
\* arrives; an OPC message of channel 71 ('G'), command 69 ('E'), then a
\* header declaring 21504 bytes, of which three arrive; "GEX " and four
\* more bytes, an OPC header declaring 22560 bytes; "G", too short to
\* classify; "GET / HTTP/1.0\r\n\r\n"; "POST /x\r\n"; "HEAD /".
Streams ==
    {StreamThree,
     <<1, 0, 0, 6, 1, 2, 3, 4, 5, 6>> \o <<1, 0, 0, 3, 7, 8, 9>>,
     <<0, 0, 0, 0, 0, 0, 0, 0, 0, 0, 0, 0>>,
     <<1, 0, 0, 6, 1, 2, 3, 4, 5>>,
     <<71, 69, 0, 1, 5>> \o <<71, 69, 84, 0>> \o <<1, 2, 3>>,
     <<71, 69, 88, 32, 1, 2, 3, 4>>,
     <<71>>,
     <<71, 69, 84, 32, 47, 32, 72, 84, 84, 80, 47, 49, 46, 48, 13, 10, 13, 10>>,
     <<80, 79, 83, 84, 32, 47, 120, 13, 10>>,
     <<72, 69, 65, 68, 32, 47>>}

\* A connection just accepted, none of its stream delivered yet; the device
\* is as constructed.
NetInit ==
    /\ alive = TRUE
    /\ mConfigMap = NullMap
    /\ mNumFramesPending = 0
    /\ mFrameWaitingForSubmit = FALSE
    /\ mPending = {}
    /\ pendingOrder = <<>>
    /\ mFramebuffer = InitFramebuffer
    /\ mFirmwareConfig = InitFirmwareConfig
    /\ mColorLUT = InitColorLUT
    /\ alloc = {}
    /\ xtype = [t \in Slots |-> "OTHER"]
    /\ finished = [t \in Slots |-> FALSE]
    /\ usbActive = {}
    /\ cancelRequested = {}
    /\ pc = "idle"
    /\ current = END
    /\ lastCall = Call("construct", FALSE, "none", END)
    /\ burst = 0
    /\ dropped = <<>>
    /\ cleanPass = FALSE
    /\ mapIn = NoMapIn
    /\ mapOut = NoMapOut
    /\ passStart = {}
    /\ client = NoClient
    /\ \E stream \in Streams : wire = Wire(stream)

\* One delivery of the next n bytes of the stream to the connection: in
\* protocol-detect they are buffered and, once the stream can be
\* classified, the buffered bytes are replayed into the chosen handler; in
\* the opc state they go to opcRead; in the http state to the HTTP server.
Receive(n) ==
    /\ n \in 1 .. Len(wire.rest)
    /\ LET buffered == client.buffer \o SubSeq(wire.rest, 1, n)
           state == IF client.state = CLIENT_STATE_PROTOCOL_DETECT
                    THEN Detect(buffered)
                    ELSE client.state
           read == opcRead(buffered, wire.dispatched)
       IN  /\ client' =
                 IF state = CLIENT_STATE_OPEN_PIXEL_CONTROL
                 THEN Client(state, read.buffer)
                 ELSE IF state = CLIENT_STATE_HTTP
                 THEN Client(state, <<>>)
                 ELSE Client(state, buffered)
           /\ wire' = [wire EXCEPT
                          !.rest = SubSeq(wire.rest, n + 1, Len(wire.rest)),
                          !.dispatched = IF state = CLIENT_STATE_OPEN_PIXEL_CONTROL
                                         THEN read.out ELSE @]
    /\ UNCHANGED <<devVars, xferVars, lastCall, burst, cleanPass, dropped, mapIn,
                   mapOut, passStart>>

\* The longest delivery of the sessions checked.
MaxDelivery == 20

NetNext == \E n \in 1 .. MaxDelivery : Receive(n)

NetSpec == NetInit /\ [][NetNext]_vars

\* The part of the stream delivered so far.
Delivered == SubSeq(wire.stream, 1, Len(wire.stream) - Len(wire.rest))

\* The messages that lie whole in `bytes` from 1-based position pos on.
RECURSIVE WholeMessages(_, _)
WholeMessages(bytes, pos) ==
    IF pos + 3 > Len(bytes) THEN <<>>
    ELSE LET length == 256 * bytes[pos + 2] + bytes[pos + 3]
         IN  IF pos + 3 + length > Len(bytes) THEN <<>>
             ELSE <<[channel |-> bytes[pos], command |-> bytes[pos + 1],
                     data |-> [k \in 1 .. length |-> bytes[pos + 3 + k]]]>>
                  \o WholeMessages(bytes, pos + 4 + length)

\* The first four bytes of the stream are "GET ", "POST" or "HEAD".
IsHttpStream ==
    /\ Len(wire.stream) >= 4
    /\ <<wire.stream[1], wire.stream[2], wire.stream[3], wire.stream[4]>>
          \in {<<71, 69, 84, 32>>, <<80, 79, 83, 84>>, <<72, 69, 65, 68>>}

\* C18: a connection starts in protocol-detect and its state changes only
\* from there, to opc or to http; however the stream is cut into
\* deliveries, once four bytes have arrived it is in http if the stream
\* begins with an HTTP request-line token and in opc otherwise; and in opc
\* the messages dispatched are exactly those whose header and declared
\* payload have wholly arrived, in order.
C18_ProtocolDetect ==
    /\ client.state = CLIENT_STATE_PROTOCOL_DETECT
    /\ [][client'.state # client.state
            => /\ client.state = CLIENT_STATE_PROTOCOL_DETECT
               /\ client'.state \in {CLIENT_STATE_OPEN_PIXEL_CONTROL, CLIENT_STATE_HTTP}]_vars
    /\ [](/\ (client.state = CLIENT_STATE_PROTOCOL_DETECT) <=> (Len(Delivered) < 4)
          /\ (client.state = CLIENT_STATE_HTTP) <=> (Len(Delivered) >= 4 /\ IsHttpStream)
          /\ (client.state = CLIENT_STATE_OPEN_PIXEL_CONTROL)
                <=> (Len(Delivered) >= 4 /\ ~IsHttpStream)
          /\ wire.dispatched =
                IF client.state = CLIENT_STATE_OPEN_PIXEL_CONTROL
                THEN WholeMessages(Delivered, 1)
                ELSE <<>>)

\* C18 witness: an OPC connection whose stream arrived in pieces: two
\* messages were dispatched, part of the third one's header is buffered and
\* the rest of it has not arrived.
C18_Witness ==
    /\ client.state = CLIENT_STATE_OPEN_PIXEL_CONTROL
    /\ wire.stream = StreamThree
    /\ Len(wire.dispatched) = 2
    /\ wire.dispatched[1] = Message(1, 0, <<10, 20, 30>>)
    /\ Len(client.buffer) \in 1 .. 3
    /\ wire.rest # <<>>

---------------------------------------------------------------------------
(* The completion callback and the reap pass *)

\* C19: a step of completeTransfer sets the flag of one Transfer and
\* changes neither mPending, mNumFramesPending, mFrameWaitingForSubmit, any
\* other flag, any Transfer object, any packet buffer nor the position of a
\* reap pass in progress; a flagged Transfer of mPending stays there,
\* flagged, until a reap step erases and deletes it, which happens to
\* flagged Transfers of mPending only; inside a pass, every Transfer that
\* was flagged when the pass began is either reaped or still ahead of the
\* iterator, so that none is left when the loop ends.
C19_CallbackOnlySetsFlag ==
    /\ [][lastCall'.op = "completeTransfer"
            => /\ \E t \in Slots :
                     /\ ~finished[t]
                     /\ finished'[t]
                     /\ \A u \in Slots \ {t} : finished'[u] = finished[u]
               /\ UNCHANGED <<mPending, mNumFramesPending, mFrameWaitingForSubmit,
                              mFramebuffer, mFirmwareConfig, mColorLUT, alloc, xtype,
                              pc, current, alive, mConfigMap>>]_vars
    /\ [][\A t \in Slots :
            (t \in mPending /\ finished[t])
              => \/ t \in mPending' /\ finished'[t] /\ t \in alloc'
                 \/ lastCall'.reaped = t /\ t \notin mPending' /\ t \notin alloc']_vars
    /\ [][\A t \in Slots :
            (lastCall'.reaped = t \/ (t \in mPending /\ t \notin mPending'))
              => /\ lastCall'.reaped = t
                 /\ pc = "flush"
                 /\ t \in mPending /\ t \in alloc /\ finished[t]
                 /\ t \notin mPending' /\ t \notin alloc']_vars
    /\ [](pc = "flush"
            => /\ \A t \in passStart \cap mPending :
                     current # END /\ Position(current) <= Position(t)
               /\ \A t \in mPending :
                     (finished[t] /\ (current = END \/ Position(t) < Position(current)))
                        => t \notin passStart)

\* C19 witness: the callback ran during a pass for a Transfer the iterator
\* had already passed: the Transfer is still in mPending, flagged, and is
\* left for the next pass.
C19_Witness ==
    /\ pc = "flush"
    /\ lastCall.op = "completeTransfer"
    /\ \E t \in mPending :
          /\ finished[t]
          /\ t \notin passStart
          /\ t \in alloc
          /\ current # END /\ Position(t) < Position(current)
    /\ passStart # {}

---------------------------------------------------------------------------
(* The frame counter *)

\* C20: in every state mNumFramesPending is the number of Transfers of type
\* FRAME in mPending; a step raises it, by one, exactly when writeFramebuffer
\* submits a frame Transfer successfully (which enters mPending), and
\* lowers it, by one, exactly when flush reaps a finished Transfer of type
\* FRAME (which leaves mPending); no other step changes it.
C20_FramesPendingCount ==
    /\ [](mNumFramesPending = Cardinality({t \in mPending : xtype[t] = "FRAME"}))
    /\ [][LET submitted == lastCall'.fb /\ lastCall'.submit = "ok"
              reapedFrame == lastCall'.reaped # END /\ xtype[lastCall'.reaped] = "FRAME"
          IN  /\ mNumFramesPending' =
                    IF submitted THEN mNumFramesPending + 1
                    ELSE IF reapedFrame THEN mNumFramesPending - 1
                    ELSE mNumFramesPending
              /\ submitted
                    => /\ lastCall'.slot \notin mPending
                       /\ mPending' = mPending \cup {lastCall'.slot}
                       /\ xtype'[lastCall'.slot] = "FRAME"
              /\ reapedFrame
                    => /\ lastCall'.reaped \in mPending
                       /\ finished[lastCall'.reaped]
                       /\ mPending' = mPending \ {lastCall'.reaped}]_vars

\* C20 witness: between operations, after flush reaped a frame and sent
\* the deferred one, the counter is at the cap and mPending also holds a
\* Transfer that is not a frame.
C20_Witness ==
    /\ pc = "idle"
    /\ lastCall.op = "flush"
    /\ lastCall.submit = "ok"
    /\ mNumFramesPending = MAX_FRAMES_PENDING
    /\ Cardinality(mPending) = MAX_FRAMES_PENDING + 1
    /\ \E t \in mPending : xtype[t] = "OTHER" /\ finished[t]

---------------------------------------------------------------------------
(* Transfers that are not frames *)

\* C21: a color-LUT or configuration submission is made whatever
\* mNumFramesPending and mFrameWaitingForSubmit are, also at the cap: a
\* firmware-configuration message can be handled in every state between
\* operations, its handling and that of a color-correction text that
\* parses always reach libusb, and the submission leaves both the counter
\* and the flag as they were, a successful one adding one Transfer that is
\* not a frame to mPending; reaping such a Transfer leaves the counter and
\* the flag as they were too.
C21_CapAppliesToFramesOnly ==
    /\ []((pc = "idle" /\ OtherOutstanding < MaxOther)
             => ENABLED WriteMessage(MsgConfig, TRUE))
    /\ [][/\ lastCall'.op = "opcSetFirmwareConfiguration" => lastCall'.submit # "none"
          /\ (/\ lastCall'.op = "opcSetGlobalColorCorrection"
              /\ ~ParseInsitu(SubSeq(lastCall'.msg.data, 5, Len(lastCall'.msg.data))).error)
                => lastCall'.submit # "none"
          /\ (/\ lastCall'.op \in {"matchConfiguration", "opcSetGlobalColorCorrection",
                                   "opcSetFirmwareConfiguration"}
              /\ lastCall'.submit # "none")
                => /\ mNumFramesPending' = mNumFramesPending
                   /\ mFrameWaitingForSubmit' = mFrameWaitingForSubmit
                   /\ lastCall'.submit = "fail" => mPending' = mPending
                   /\ lastCall'.submit = "ok"
                        => /\ lastCall'.slot \notin mPending
                           /\ mPending' = mPending \cup {lastCall'.slot}
                           /\ xtype'[lastCall'.slot] = "OTHER"
                           /\ lastCall'.slot \in usbActive'
          /\ (lastCall'.reaped # END /\ xtype[lastCall'.reaped] = "OTHER")
                => /\ mNumFramesPending' = mNumFramesPending
                   /\ mFrameWaitingForSubmit' = mFrameWaitingForSubmit
                   /\ mPending' = mPending \ {lastCall'.reaped}]_vars

\* C21 witness: with mNumFramesPending at the cap and a frame deferred, a
\* firmware-configuration message was submitted successfully.
C21_Witness ==
    /\ lastCall.op = "opcSetFirmwareConfiguration"
    /\ lastCall.submit = "ok"
    /\ lastCall.slot \in mPending
    /\ xtype[lastCall.slot] = "OTHER"
    /\ mNumFramesPending = MAX_FRAMES_PENDING
    /\ mFrameWaitingForSubmit

====
